---- MODULE Spec2Model ----
(***************************************************************************)
(* A model of src/main.py: a FastAPI application that keeps chat           *)
(* conversations in one MySQL table through SQLAlchemy's AsyncSession and  *)
(* summarises a conversation with a call to an external text generator.    *)
(*                                                                         *)
(* Every request runs in its own coroutine with its own session.  A        *)
(* handler is split into steps exactly at its awaits on the database: the  *)
(* SELECT of one request and the COMMIT of the same request are separate   *)
(* steps, and steps of other requests may run between them.  The call to   *)
(* the text generator is a synchronous call made on the event loop: while  *)
(* it is outstanding no other coroutine of the process runs.               *)
(*                                                                         *)
(* The table outlives the process: a run starts on the rows earlier runs   *)
(* have stored.  uuid4 is taken to return a value it has not returned      *)
(* before.                                                                 *)
(***************************************************************************)
EXTENDS Integers, Sequences, FiniteSets, TLC

(***************************************************************************)
(* Bounds of the model.                                                    *)
(***************************************************************************)
MaxReqs == 2       \* requests received in one run
MaxPage == 2       \* largest page number asked for
MaxLimit == 2      \* largest page size asked for

Req == {1, 2}                       \* requests in flight at the same time
ConvIds == {"c1", "c2"}             \* values uuid4 can return
Msgs == {"m1", "m2"}
ShortUsers == {"u1", "u2"}
LongUser == "u-123456789-123456789-123456789-123456789-123456789"
LongUserCut == "u-123456789-123456789-123456789-123456789-12345678"

(***************************************************************************)
(* Program constants.                                                      *)
(***************************************************************************)
UserIdWidth == 50

Missing == "<missing>"              \* a field the JSON body does not have
NoChat == [conversation_id |-> "", user_id |-> "", messages |-> << >>]

VARIABLES
    chats,      \* the rows of table "chats": records Chat
    issued,     \* the values uuid4 has returned so far
    req,        \* per request slot: the coroutine's position and locals
    nreq,       \* number of requests received
    acked,      \* per conversation: messages add_message answered success for
    deleted,    \* conversation ids delete_chat answered success for
    served,     \* pages get_user_chats returned since the last write
    created,    \* conversation ids store_chat answered success with
    seen        \* what get_chat answered since the last write

vars ==
    <<chats, issued, req, nreq, acked, deleted, served, created, seen>>

----------------------------------------------------------------------------
(***************************************************************************)
(* Pure helpers.                                                           *)
(***************************************************************************)
Min(a, b) == IF a < b THEN a ELSE b

Range(s) == {s[i] : i \in 1..Len(s)}

\* Python's s[start:end] for 0 <= start <= end.
PySlice(s, start, end) ==
    LET hi == Min(end, Len(s))
        n == IF hi > start THEN hi - start ELSE 0
    IN [i \in 1..n |-> s[start + i]]

\* All orders in which a SELECT without ORDER BY may return the rows S.
Orderings(S) ==
    {f \in [1..Cardinality(S) -> S] : \A i, j \in 1..Cardinality(S) : i # j => f[i] # f[j]}

----------------------------------------------------------------------------
(***************************************************************************)
(* Route table and dispatch.  The application's routes, in the order the   *)
(* decorators register them; a request is served by the first route whose  *)
(* path pattern and method both match.                                     *)
(***************************************************************************)
Params == {"{conversation_id}", "{user_id}"}

Routes == <<
    [method |-> "POST",   pattern |-> <<"chats">>,                      handler |-> "store_chat",     model |-> "ChatMessage"],
    [method |-> "GET",    pattern |-> <<"chats", "{conversation_id}">>, handler |-> "get_chat",       model |-> "none"],
    [method |-> "POST",   pattern |-> <<"chats", "{conversation_id}">>, handler |-> "add_message",    model |-> "ChatMessage"],
    [method |-> "POST",   pattern |-> <<"chats", "summarize">>,         handler |-> "summarize_chat", model |-> "SummarizeRequest"],
    [method |-> "GET",    pattern |-> <<"users", "{user_id}", "chats">>, handler |-> "get_user_chats", model |-> "none"],
    [method |-> "DELETE", pattern |-> <<"chats", "{conversation_id}">>, handler |-> "delete_chat",    model |-> "none"] >>

PathMatches(pattern, path) ==
    /\ Len(pattern) = Len(path)
    /\ \A i \in 1..Len(pattern) : pattern[i] \in Params \/ pattern[i] = path[i]

\* Index of the first route matching path and method, 0 when there is none.
Dispatch(method, path) ==
    LET hits == {i \in 1..Len(Routes) :
                    Routes[i].method = method /\ PathMatches(Routes[i].pattern, path)}
    IN IF hits = {} THEN 0 ELSE CHOOSE i \in hits : \A j \in hits : i <= j

\* Whether some route matches the path (with another method): 405, else 404.
PathKnown(path) == \E i \in 1..Len(Routes) : PathMatches(Routes[i].pattern, path)

\* The value bound to path parameter name, Missing when the route has none.
PathParam(route, path, name) ==
    LET at == {i \in 1..Len(Routes[route].pattern) : Routes[route].pattern[i] = name}
    IN IF at = {} THEN Missing ELSE path[CHOOSE i \in at : TRUE]

\* Pydantic validation of the JSON body against the handler's body model;
\* fields the model does not declare are ignored.
BodyValid(model, json) ==
    CASE model = "ChatMessage"      -> json.user_id # Missing /\ json.message # Missing
      [] model = "SummarizeRequest" -> json.conversation_id # Missing
      [] OTHER                      -> TRUE

\* Query(1, ge=1) on page and limit of get_user_chats.
QueryValid(handler, page, limit) ==
    handler = "get_user_chats" => (page >= 1 /\ limit >= 1)

----------------------------------------------------------------------------
(***************************************************************************)
(* The table and the session's unit of work.                               *)
(***************************************************************************)
\* select(Chat).filter_by(conversation_id=cid) ... .first()
SelectFirst(table, cid) ==
    LET rows == {c \in table : c.conversation_id = cid}
    IN IF rows = {} THEN NoChat ELSE CHOOSE c \in rows : TRUE

\* The rows select(Chat).filter_by(user_id=u) matches.
RowsOfUser(table, u) == {c \in table : c.user_id = u}

\* The flush under a server without strict mode (a faulty variant of Flush): a
\* user_id wider than its column is cut to the column's width and stored.
FlushNonStrict(table, chat, pending) ==
    CASE pending = "new" ->
            IF \E c \in table : c.conversation_id = chat.conversation_id
            THEN [ok |-> FALSE, table |-> table]
            ELSE [ok |-> TRUE,
                  table |-> table \cup
                     {IF Len(chat.user_id) > UserIdWidth
                      THEN [chat EXCEPT !.user_id = LongUserCut]
                      ELSE chat}]
      [] pending = "deleted" ->
            [ok |-> TRUE,
             table |-> {c \in table : c.conversation_id # chat.conversation_id}]
      [] OTHER -> [ok |-> TRUE, table |-> table]

\* A flush that issues no DELETE (a faulty variant of Flush).
FlushKeepsDeleted(table, chat, pending) ==
    CASE pending = "new" ->
            IF \/ \E c \in table : c.conversation_id = chat.conversation_id
               \/ Len(chat.user_id) > UserIdWidth
            THEN [ok |-> FALSE, table |-> table]
            ELSE [ok |-> TRUE, table |-> table \cup {chat}]
      [] OTHER -> [ok |-> TRUE, table |-> table]

\* A flush that also writes back the list of a loaded object, as a column
\* with mutation tracking would (a faulty variant of Flush): the row's
\* messages are replaced by the session's list.
FlushWritesBack(table, chat, pending) ==
    CASE pending = "new" ->
            IF \/ \E c \in table : c.conversation_id = chat.conversation_id
               \/ Len(chat.user_id) > UserIdWidth
            THEN [ok |-> FALSE, table |-> table]
            ELSE [ok |-> TRUE, table |-> table \cup {chat}]
      [] pending = "deleted" ->
            [ok |-> TRUE,
             table |-> {c \in table : c.conversation_id # chat.conversation_id}]
      [] OTHER ->
            IF \E c \in table : c.conversation_id = chat.conversation_id
            THEN [ok |-> TRUE,
                  table |-> {c \in table : c.conversation_id # chat.conversation_id}
                            \cup {chat}]
            ELSE [ok |-> FALSE, table |-> table]

\* A flush whose DELETE is keyed by the owner instead of the primary key (a
\* faulty variant of Flush).
FlushDeletesByOwner(table, chat, pending) ==
    CASE pending = "new" ->
            IF \/ \E c \in table : c.conversation_id = chat.conversation_id
               \/ Len(chat.user_id) > UserIdWidth
            THEN [ok |-> FALSE, table |-> table]
            ELSE [ok |-> TRUE, table |-> table \cup {chat}]
      [] pending = "deleted" ->
            [ok |-> TRUE,
             table |-> {c \in table : c.user_id # chat.user_id}]
      [] OTHER -> [ok |-> TRUE, table |-> table]

\* A flush whose INSERT is not checked against the primary key (a faulty
\* variant of Flush).
FlushNoPrimaryKey(table, chat, pending) ==
    CASE pending = "new" ->
            IF Len(chat.user_id) > UserIdWidth
            THEN [ok |-> FALSE, table |-> table]
            ELSE [ok |-> TRUE, table |-> table \cup {chat}]
      [] pending = "deleted" ->
            [ok |-> TRUE,
             table |-> {c \in table : c.conversation_id # chat.conversation_id}]
      [] OTHER -> [ok |-> TRUE, table |-> table]

\* A flush that writes a loaded object back with its owner reset (a faulty
\* variant of Flush).
FlushResetsOwner(table, chat, pending) ==
    CASE pending = "new" ->
            IF \/ \E c \in table : c.conversation_id = chat.conversation_id
               \/ Len(chat.user_id) > UserIdWidth
            THEN [ok |-> FALSE, table |-> table]
            ELSE [ok |-> TRUE, table |-> table \cup {chat}]
      [] pending = "deleted" ->
            [ok |-> TRUE,
             table |-> {c \in table : c.conversation_id # chat.conversation_id}]
      [] OTHER ->
            [ok |-> TRUE,
             table |-> {IF c.conversation_id = chat.conversation_id
                        THEN [c EXCEPT !.user_id = ""] ELSE c : c \in table}]

\* What the flush of a commit writes.  pending is what the unit of work
\* knows about the object: "new" (session.add), "deleted" (session.delete),
\* "clean" otherwise (no handler sets an attribute of a loaded object).
\* MySQL runs in its default strict mode: a value wider than its column is
\* an error.
Flush(table, chat, pending) ==
    CASE pending = "new" ->
            IF \/ \E c \in table : c.conversation_id = chat.conversation_id
               \/ Len(chat.user_id) > UserIdWidth
            THEN [ok |-> FALSE, table |-> table]
            ELSE [ok |-> TRUE, table |-> table \cup {chat}]
      [] pending = "deleted" ->
            [ok |-> TRUE,
             table |-> {c \in table : c.conversation_id # chat.conversation_id}]
      [] OTHER -> [ok |-> TRUE, table |-> table]

\* A commit whose failure leaves the flushed statements in the table (a
\* faulty variant of Commit: no rollback).
CommitKeepsFlush(table, chat, pending, dbok) ==
    LET f == Flush(table, chat, pending)
    IN IF dbok /\ f.ok THEN f ELSE [ok |-> FALSE, table |-> f.table]

\* session.commit(): the flush, then COMMIT; dbok is whether the database
\* accepts the transaction.  A failure raises SQLAlchemyError and the
\* handler's rollback leaves the table as it was.
Commit(table, chat, pending, dbok) ==
    LET f == Flush(table, chat, pending)
    IN IF dbok /\ f.ok THEN f ELSE [ok |-> FALSE, table |-> table]

\* chat.messages.append(m): the list held by the JSON column is changed in
\* place.  The column is a plain JSON type, so the unit of work sees no
\* attribute event and the object stays as it was for the flush.
ListAppend(s, m) ==
    [chat |-> [s.chat EXCEPT !.messages = Append(@, m)], pending |-> s.pending]

----------------------------------------------------------------------------
(***************************************************************************)
(* Summarisation: the prompt, the outcomes of the text generator and what  *)
(* generate_summary makes of them.  A generated text is a sequence of      *)
(* one-character strings so that strip() can be computed.                  *)
(***************************************************************************)
RECURSIVE Join(_)
\* " ".join(messages)
Join(ms) ==
    IF Len(ms) = 0 THEN ""
    ELSE IF Len(ms) = 1 THEN ms[1]
    ELSE ms[1] \o " " \o Join(Tail(ms))

RECURSIVE LStrip(_)
LStrip(t) == IF Len(t) > 0 /\ t[1] = " " THEN LStrip(Tail(t)) ELSE t

RECURSIVE RStrip(_)
RStrip(t) ==
    IF Len(t) > 0 /\ t[Len(t)] = " " THEN RStrip(SubSeq(t, 1, Len(t) - 1)) ELSE t

\* str.strip()
Strip(t) == RStrip(LStrip(t))

RECURSIVE Concat(_)
\* The string a sequence of characters spells.
Concat(t) == IF Len(t) = 0 THEN "" ELSE t[1] \o Concat(Tail(t))

\* What model.generate_content(...) followed by response.text can do:
\* raise (the API call fails, or response.text has no usable part), give no
\* response object, or give a response with a text.
Outcomes ==
    {[kind |-> "raise", text |-> << >>, error |-> "ResourceExhausted"],
     [kind |-> "raise", text |-> << >>, error |-> "ValueError"],
     [kind |-> "none",  text |-> << >>, error |-> ""],
     [kind |-> "text",  text |-> << >>, error |-> ""],
     [kind |-> "text",  text |-> <<" ", "o", "k", " ">>, error |-> ""]}

NoOutcome == [kind |-> "", text |-> << >>, error |-> ""]

ErrorPrefix == "Error generating summary: "
NoSummary == "No summary available."

\* The body of the try block for one outcome: [raised, value], value the
\* returned string, or the exception when raised.
TryBody(o) ==
    IF o.kind = "raise"
    THEN [raised |-> TRUE, value |-> o.error]
    ELSE IF o.kind = "text" /\ Len(o.text) > 0
         THEN [raised |-> FALSE, value |-> Concat(Strip(o.text))]
         ELSE [raised |-> FALSE, value |-> NoSummary]

\* except ValueError (a faulty variant of Caught).
CaughtValueError(e) == e = "ValueError"

\* except Exception: every exception the call can raise is an Exception.
Caught(e) == e \in {"ResourceExhausted", "ValueError"}

\* generate_summary(text) for one outcome of the text generator:
\* [raised, value], raised telling whether an exception leaves the function.
GenerateSummary(o) ==
    LET b == TryBody(o)
    IN IF b.raised /\ Caught(b.value)
       THEN [raised |-> FALSE, value |-> ErrorPrefix \o b.value]
       ELSE b

----------------------------------------------------------------------------
(***************************************************************************)
(* Requests.                                                               *)
(***************************************************************************)
Json(u, m, c) == [user_id |-> u, message |-> m, conversation_id |-> c]
NoJson == Json(Missing, Missing, Missing)

Http(method, path, json, page, limit) ==
    [method |-> method, path |-> path, json |-> json, page |-> page, limit |-> limit]

\* The requests for a page of a user's conversations.  Listing is asked
\* for one user; the tables hold rows of both.
ListRequests ==
    {Http("GET", <<"users", "u1", "chats">>, NoJson, p, l) :
        p \in 1..MaxPage, l \in 1..MaxLimit}
    \cup {Http("GET", <<"users", "u1", "chats">>, NoJson, 0, 1)}

DeleteRequests == {Http("DELETE", <<"chats", c>>, NoJson, 0, 0) : c \in ConvIds}

\* The HTTP requests clients send to create, read, extend, summarise and
\* delete conversations.
HttpRequests ==
    {Http("POST", <<"chats">>, Json(u, m, Missing), 0, 0) : u \in ShortUsers, m \in Msgs}
    \cup {Http("POST", <<"chats">>, Json(LongUser, "m1", Missing), 0, 0)}
    \cup {Http("GET", <<"chats", c>>, NoJson, 0, 0) : c \in ConvIds}
    \cup {Http("POST", <<"chats", c>>, Json(u, m, Missing), 0, 0) :
            c \in ConvIds, u \in ShortUsers, m \in Msgs}
    \cup {Http("POST", <<"chats", "summarize">>, Json(Missing, Missing, c), 0, 0) :
            c \in ConvIds}
    \cup {Http("POST", <<"chats", "summarize">>, Json("u1", "m1", "c1"), 0, 0)}
    \cup DeleteRequests
    \cup {Http("DELETE", <<"chats">>, NoJson, 0, 0)}

\* The HTTP requests of a client that pages through a user's conversations
\* while conversations are deleted.
PagingRequests == ListRequests \cup DeleteRequests

NoBody == [detail |-> ""]

\* Field repeat is history: uuid4 returned this request an id that was not
\* new.
FreeReq ==
    [pc |-> "free", repeat |-> FALSE, via |-> "", method |-> "", path |-> << >>, json |-> NoJson,
     handler |-> "", conversation_id |-> "", user_id |-> "", message |-> "",
     page |-> 0, limit |-> 0, chat |-> NoChat, pending |-> "clean",
     retrieved |-> << >>, prompt |-> "", outcome |-> NoOutcome, status |-> 0,
     body |-> NoBody]

\* The synchronous call to the text generator is outstanding: the event
\* loop runs nothing else.
Blocked == \E r \in Req : req[r].pc = "generate"

\* The response of a finished handler: status and JSON body.
Respond(q, status, body) == [q EXCEPT !.pc = "done", !.status = status, !.body = body]

Detail(text) == [detail |-> text]

\* ChatConversation(conversation_id=..., user_id=..., messages=...)
ChatConversation(c) ==
    [conversation_id |-> c.conversation_id, user_id |-> c.user_id, messages |-> c.messages]

\* The tables an earlier run of the service can have left behind: rows
\* written by store_chat, at most one per conversation_id.
PersistedRows ==
    {[conversation_id |-> c, user_id |-> u, messages |-> <<"m1">>] :
        c \in ConvIds, u \in ShortUsers}

PersistedTables ==
    {T \in SUBSET PersistedRows :
        \A a, b \in T : a.conversation_id = b.conversation_id => a = b}

Init ==
    /\ chats \in PersistedTables
    /\ issued = {c.conversation_id : c \in chats}
    /\ req = [r \in Req |-> FreeReq]
    /\ nreq = 0
    /\ acked = [c \in ConvIds |-> << >>]
    /\ deleted = {}
    /\ served = {}
    /\ created = {c.conversation_id : c \in chats}
    /\ seen = {}

\* A page stays comparable with other pages while the table is unchanged.
ServedAfter(table) == IF table = chats THEN served ELSE {}

\* And so does an answer of get_chat.
SeenAfter(table) == IF table = chats THEN seen ELSE {}

----------------------------------------------------------------------------
(***************************************************************************)
(* Arrival of a request: dispatch, validation and the handler's code up to *)
(* its first await.                                                        *)
(***************************************************************************)
CanReceive(r) ==
    /\ ~Blocked
    /\ nreq < MaxReqs
    /\ req[r].pc = "free"
    /\ \A o \in Req : o < r => req[o].pc # "free"

Arrived(h) ==
    [FreeReq EXCEPT !.via = "http", !.method = h.method, !.path = h.path,
                    !.json = h.json, !.page = h.page, !.limit = h.limit]

\* No route, or the arguments do not validate: answered without a handler.
Reject(r, h) ==
    LET i == Dispatch(h.method, h.path)
    IN /\ CanReceive(r)
       /\ \/ i = 0
          \/ /\ i # 0
             /\ \/ ~BodyValid(Routes[i].model, h.json)
                \/ ~QueryValid(Routes[i].handler, h.page, h.limit)
       /\ req' = [req EXCEPT ![r] =
                    IF i = 0
                    THEN Respond(Arrived(h), IF PathKnown(h.path) THEN 405 ELSE 404,
                                 Detail("Not Found"))
                    ELSE Respond([Arrived(h) EXCEPT !.handler = Routes[i].handler],
                                 422, Detail("Unprocessable Entity"))]
       /\ nreq' = nreq + 1
       /\ UNCHANGED <<chats, issued, acked, deleted, served, created, seen>>

\* The handler a valid request is bound to, with its arguments.
Bound(h, i) ==
    LET cid == IF Routes[i].handler = "summarize_chat"
               THEN h.json.conversation_id
               ELSE PathParam(i, h.path, "{conversation_id}")
        uid == IF Routes[i].handler = "get_user_chats"
               THEN PathParam(i, h.path, "{user_id}")
               ELSE h.json.user_id
    IN [Arrived(h) EXCEPT !.handler = Routes[i].handler, !.conversation_id = cid,
                          !.user_id = uid, !.message = h.json.message]

Accepts(h) ==
    LET i == Dispatch(h.method, h.path)
    IN /\ i # 0
       /\ BodyValid(Routes[i].model, h.json)
       /\ QueryValid(Routes[i].handler, h.page, h.limit)

\* store_chat building the Chat object with an empty list (a faulty variant
\* of StoreChatBegin).
StoreChatBeginNoMessage(r, h, id) ==
    LET i == Dispatch(h.method, h.path)
    IN /\ CanReceive(r)
       /\ Accepts(h)
       /\ Routes[i].handler = "store_chat"
       /\ id \in ConvIds \ issued
       /\ issued' = issued \cup {id}
       /\ req' = [req EXCEPT ![r] =
                    [Bound(h, i) EXCEPT
                        !.pc = "commit", !.conversation_id = id, !.pending = "new",
                        !.chat = [conversation_id |-> id, user_id |-> h.json.user_id,
                                  messages |-> << >>]]]
       /\ nreq' = nreq + 1
       /\ UNCHANGED <<chats, acked, deleted, served, created, seen>>

\* store_chat up to its commit: uuid4, the Chat object, session.add.
StoreChatBegin(r, h, id) ==
    LET i == Dispatch(h.method, h.path)
    IN /\ CanReceive(r)
       /\ Accepts(h)
       /\ Routes[i].handler = "store_chat"
       /\ id \in ConvIds \ issued
       /\ issued' = issued \cup {id}
       /\ req' = [req EXCEPT ![r] =
                    [Bound(h, i) EXCEPT
                        !.pc = "commit", !.conversation_id = id, !.pending = "new",
                        !.chat = [conversation_id |-> id, user_id |-> h.json.user_id,
                                  messages |-> <<h.json.message>>]]]
       /\ nreq' = nreq + 1
       /\ UNCHANGED <<chats, acked, deleted, served, created, seen>>

\* store_chat when uuid4 returns the id of a stored conversation.  The code
\* does not look the id up before the INSERT, so the request goes on to its
\* commit as any other; the row may be deleted before that commit.
StoreChatBeginCollision(r, h, id) ==
    LET i == Dispatch(h.method, h.path)
    IN /\ CanReceive(r)
       /\ Accepts(h)
       /\ Routes[i].handler = "store_chat"
       /\ \E c \in chats : c.conversation_id = id
       /\ req' = [req EXCEPT ![r] =
                    [Bound(h, i) EXCEPT
                        !.pc = "commit", !.conversation_id = id, !.pending = "new",
                        !.repeat = TRUE,
                        !.chat = [conversation_id |-> id, user_id |-> h.json.user_id,
                                  messages |-> <<h.json.message>>]]]
       /\ nreq' = nreq + 1
       /\ UNCHANGED <<chats, issued, acked, deleted, served, created, seen>>

\* Every other handler starts with a SELECT.
HandlerBegin(r, h) ==
    LET i == Dispatch(h.method, h.path)
    IN /\ CanReceive(r)
       /\ Accepts(h)
       /\ Routes[i].handler # "store_chat"
       /\ req' = [req EXCEPT ![r] = [Bound(h, i) EXCEPT !.pc = "select"]]
       /\ nreq' = nreq + 1
       /\ UNCHANGED <<chats, issued, acked, deleted, served, created, seen>>

\* summarize_chat(SummarizeRequest(conversation_id=c), session) called as a
\* function, not through the route table.
CallSummarizeChat(r, c) ==
    /\ CanReceive(r)
    /\ req' = [req EXCEPT ![r] =
                [FreeReq EXCEPT !.via = "call", !.handler = "summarize_chat",
                                !.conversation_id = c, !.pc = "select"]]
    /\ nreq' = nreq + 1
    /\ UNCHANGED <<chats, issued, acked, deleted, served, created, seen>>

\* The response has been sent; the coroutine and its session are gone.
Reply(r) ==
    /\ ~Blocked
    /\ req[r].pc = "done"
    /\ req' = [req EXCEPT ![r] = FreeReq]
    /\ UNCHANGED <<chats, issued, nreq, acked, deleted, served, created, seen>>

----------------------------------------------------------------------------
(***************************************************************************)
(* The handlers, one action per stretch of code between two awaits on the  *)
(* database.                                                               *)
(***************************************************************************)
At(r, handler, pc) == ~Blocked /\ req[r].handler = handler /\ req[r].pc = pc

\* store_chat: the commit of the new row and the response.
StoreChatCommit(r, dbok) ==
    LET q == req[r]
        c == Commit(chats, q.chat, q.pending, dbok)
    IN /\ At(r, "store_chat", "commit")
       /\ chats' = c.table
       /\ req' = [req EXCEPT ![r] =
                    IF c.ok
                    THEN Respond(q, 200,
                                 [conversation_id |-> q.conversation_id,
                                  user_id |-> q.user_id, messages |-> <<q.message>>])
                    ELSE Respond(q, 500, Detail("Database error"))]
       /\ served' = ServedAfter(c.table)
       /\ seen' = SeenAfter(c.table)
       /\ created' = IF c.ok THEN created \cup {q.conversation_id} ELSE created
       /\ UNCHANGED <<issued, nreq, acked, deleted>>

\* What get_chat answers for conversation_id cid on the table as it is.
GetChatResult(table, cid) ==
    LET chat == SelectFirst(table, cid)
    IN IF chat = NoChat
       THEN [status |-> 404, body |-> Detail("Conversation not found")]
       ELSE [status |-> 200, body |-> ChatConversation(chat)]

\* get_chat taking the row out of the table as it reads it (a faulty
\* variant of GetChat).
GetChatConsumes(r) ==
    LET q == req[r]
        a == GetChatResult(chats, q.conversation_id)
    IN /\ At(r, "get_chat", "select")
       /\ req' = [req EXCEPT ![r] = Respond(q, a.status, a.body)]
       /\ chats' = {c \in chats : c.conversation_id # q.conversation_id}
       /\ seen' = seen \cup {[conversation_id |-> q.conversation_id,
                                status |-> a.status, body |-> a.body]}
       /\ UNCHANGED <<issued, nreq, acked, deleted, served, created>>

\* get_chat
GetChat(r) ==
    LET q == req[r]
        a == GetChatResult(chats, q.conversation_id)
    IN /\ At(r, "get_chat", "select")
       /\ req' = [req EXCEPT ![r] = Respond(q, a.status, a.body)]
       /\ seen' = seen \cup {[conversation_id |-> q.conversation_id,
                                status |-> a.status, body |-> a.body]}
       /\ UNCHANGED <<chats, issued, nreq, acked, deleted, served, created>>

\* add_message without its ownership check (a faulty variant of
\* AddMessageSelect).
AddMessageSelectAnyUser(r) ==
    LET q == req[r]
        chat == SelectFirst(chats, q.conversation_id)
        s == ListAppend([chat |-> chat, pending |-> "clean"], q.message)
    IN /\ At(r, "add_message", "select")
       /\ req' = [req EXCEPT ![r] =
                    IF chat = NoChat
                    THEN Respond(q, 404, Detail("Conversation not found"))
                    ELSE [q EXCEPT !.pc = "commit", !.chat = s.chat,
                                   !.pending = s.pending]]
       /\ UNCHANGED <<chats, issued, nreq, acked, deleted, served, created, seen>>

\* add_message with the ownership check before the absence check (a faulty
\* variant of AddMessageSelect).
AddMessageSelectOwnerFirst(r) ==
    LET q == req[r]
        chat == SelectFirst(chats, q.conversation_id)
        s == ListAppend([chat |-> chat, pending |-> "clean"], q.message)
    IN /\ At(r, "add_message", "select")
       /\ req' = [req EXCEPT ![r] =
                    IF chat.user_id # q.user_id
                    THEN Respond(q, 400, Detail("User mismatch"))
                    ELSE IF chat = NoChat
                    THEN Respond(q, 404, Detail("Conversation not found"))
                    ELSE [q EXCEPT !.pc = "commit", !.chat = s.chat,
                                   !.pending = s.pending]]
       /\ UNCHANGED <<chats, issued, nreq, acked, deleted, served, created, seen>>

\* add_message from its SELECT to its commit: the two checks and the append.
AddMessageSelect(r) ==
    LET q == req[r]
        chat == SelectFirst(chats, q.conversation_id)
        s == ListAppend([chat |-> chat, pending |-> "clean"], q.message)
    IN /\ At(r, "add_message", "select")
       /\ req' = [req EXCEPT ![r] =
                    IF chat = NoChat
                    THEN Respond(q, 404, Detail("Conversation not found"))
                    ELSE IF chat.user_id # q.user_id
                    THEN Respond(q, 400, Detail("User mismatch"))
                    ELSE [q EXCEPT !.pc = "commit", !.chat = s.chat,
                                   !.pending = s.pending]]
       /\ UNCHANGED <<chats, issued, nreq, acked, deleted, served, created, seen>>

\* add_message: the commit and the response.
AddMessageCommit(r, dbok) ==
    LET q == req[r]
        c == Commit(chats, q.chat, q.pending, dbok)
    IN /\ At(r, "add_message", "commit")
       /\ chats' = c.table
       /\ req' = [req EXCEPT ![r] =
                    IF c.ok
                    THEN Respond(q, 200, Detail("Message added successfully"))
                    ELSE Respond(q, 500, Detail("Database error"))]
       /\ acked' = IF c.ok
                   THEN [acked EXCEPT ![q.conversation_id] = Append(@, q.message)]
                   ELSE acked
       /\ served' = ServedAfter(c.table)
       /\ seen' = SeenAfter(c.table)
       /\ UNCHANGED <<issued, nreq, deleted, created>>

\* summarize_chat from its SELECT to the call of generate_summary.
SummarizeSelect(r) ==
    LET q == req[r]
        chat == SelectFirst(chats, q.conversation_id)
    IN /\ At(r, "summarize_chat", "select")
       /\ req' = [req EXCEPT ![r] =
                    IF chat = NoChat
                    THEN Respond(q, 404, Detail("Conversation not found"))
                    ELSE [q EXCEPT !.pc = "generate", !.chat = chat,
                                   !.prompt = "Summarize this chat: " \o Join(chat.messages)]]
       /\ UNCHANGED <<chats, issued, nreq, acked, deleted, served, created, seen>>

\* The text generator answers (or fails) with outcome o; generate_summary
\* returns and summarize_chat builds its response.
GenerateContentReturns(r, o) ==
    LET q == req[r]
        g == GenerateSummary(o)
    IN /\ q.handler = "summarize_chat"
       /\ q.pc = "generate"
       /\ req' = [req EXCEPT ![r] =
                    IF g.raised
                    THEN Respond([q EXCEPT !.outcome = o], 500,
                                 Detail("Internal Server Error"))
                    ELSE Respond([q EXCEPT !.outcome = o], 200,
                                 [conversation_id |-> q.conversation_id,
                                  summary |-> g.value])]
       /\ UNCHANGED <<chats, issued, nreq, acked, deleted, served, created, seen>>

\* The page with start = page * limit (a faulty variant of PageOf).
PageOfZeroBased(rows, page, limit) ==
    LET start == page * limit
        end == start + limit
    IN PySlice(rows, start, end)

\* The page of get_user_chats: chats[start:end] of the retrieved list.
PageOf(rows, page, limit) ==
    LET start == (page - 1) * limit
        end == start + limit
    IN PySlice(rows, start, end)

\* get_user_chats with the retrieved list rows.
ListChats(r, rows) ==
    LET q == req[r]
        items == PageOf(rows, q.page, q.limit)
    IN /\ req' = [req EXCEPT ![r] =
                    Respond([q EXCEPT !.retrieved = rows], 200,
                            [items |-> [i \in 1..Len(items) |-> ChatConversation(items[i])]])]
       /\ served' = served \cup
                    {[user_id |-> q.user_id, limit |-> q.limit, page |-> q.page,
                      ids |-> [i \in 1..Len(items) |-> items[i].conversation_id]]}
       /\ UNCHANGED <<chats, issued, nreq, acked, deleted, created, seen>>

\* get_user_chats.  The query has no ORDER BY: the database returns the
\* user's rows in an order of its choosing, anew for every query.
GetUserChats(r) ==
    /\ At(r, "get_user_chats", "select")
    /\ \E rows \in Orderings(RowsOfUser(chats, req[r].user_id)) : ListChats(r, rows)

\* delete_chat from its SELECT to its commit.
DeleteSelect(r) ==
    LET q == req[r]
        chat == SelectFirst(chats, q.conversation_id)
    IN /\ At(r, "delete_chat", "select")
       /\ req' = [req EXCEPT ![r] =
                    IF chat = NoChat
                    THEN Respond(q, 404, Detail("Conversation not found"))
                    ELSE [q EXCEPT !.pc = "commit", !.chat = chat, !.pending = "deleted"]]
       /\ UNCHANGED <<chats, issued, nreq, acked, deleted, served, created, seen>>

\* delete_chat: the commit and the response.
DeleteCommit(r, dbok) ==
    LET q == req[r]
        c == Commit(chats, q.chat, q.pending, dbok)
    IN /\ At(r, "delete_chat", "commit")
       /\ chats' = c.table
       /\ req' = [req EXCEPT ![r] =
                    IF c.ok
                    THEN Respond(q, 200, Detail("Conversation deleted successfully"))
                    ELSE Respond(q, 500, Detail("Database error"))]
       /\ deleted' = IF c.ok THEN deleted \cup {q.conversation_id} ELSE deleted
       /\ served' = ServedAfter(c.table)
       /\ seen' = SeenAfter(c.table)
       /\ UNCHANGED <<issued, nreq, acked, created>>

----------------------------------------------------------------------------
Next ==
    \/ \E r \in Req, h \in HttpRequests : Reject(r, h)
    \/ \E r \in Req, h \in HttpRequests, id \in ConvIds : StoreChatBegin(r, h, id)
    \/ \E r \in Req, h \in HttpRequests : HandlerBegin(r, h)
    \/ \E r \in Req, c \in ConvIds : CallSummarizeChat(r, c)
    \/ \E r \in Req, dbok \in BOOLEAN : StoreChatCommit(r, dbok)
    \/ \E r \in Req : GetChat(r)
    \/ \E r \in Req : AddMessageSelect(r)
    \/ \E r \in Req, dbok \in BOOLEAN : AddMessageCommit(r, dbok)
    \/ \E r \in Req : SummarizeSelect(r)
    \/ \E r \in Req, o \in Outcomes : GenerateContentReturns(r, o)
    \/ \E r \in Req : DeleteSelect(r)
    \/ \E r \in Req, dbok \in BOOLEAN : DeleteCommit(r, dbok)
    \/ \E r \in Req : Reply(r)

\* Creation, reading, appending, summarising and deleting, interleaved.
Spec == Init /\ [][Next]_vars

NextCollide ==
    \/ Next
    \/ \E r \in Req, h \in HttpRequests, id \in ConvIds :
            StoreChatBeginCollision(r, h, id)

\* The same, with uuid4 allowed to return an id that is stored.
SpecCollide == Init /\ [][NextCollide]_vars

NextPaging ==
    \/ \E r \in Req, h \in PagingRequests : Reject(r, h)
    \/ \E r \in Req, h \in PagingRequests : HandlerBegin(r, h)
    \/ \E r \in Req : GetUserChats(r)
    \/ \E r \in Req : DeleteSelect(r)
    \/ \E r \in Req, dbok \in BOOLEAN : DeleteCommit(r, dbok)
    \/ \E r \in Req : Reply(r)

\* Listing a user's conversations page by page, interleaved with deletes.
SpecPaging == Init /\ [][NextPaging]_vars

\* The requests for the first page of a user's conversations, at the
\* largest page size.
FirstPageRequests == {h \in ListRequests : h.page = 1 /\ h.limit = MaxLimit}

NextAll ==
    \/ Next
    \/ \E r \in Req, h \in FirstPageRequests : HandlerBegin(r, h)
    \/ \E r \in Req : GetUserChats(r)

\* All six handlers, interleaved.
SpecAll == Init /\ [][NextAll]_vars

\* The steps the server takes by itself: a coroutine that can run is run.
\* The arrival of a request and the answer of the text generator are the
\* environment's.
ServerStep ==
    \/ \E r \in Req, dbok \in BOOLEAN : StoreChatCommit(r, dbok)
    \/ \E r \in Req : GetChat(r)
    \/ \E r \in Req : AddMessageSelect(r)
    \/ \E r \in Req, dbok \in BOOLEAN : AddMessageCommit(r, dbok)
    \/ \E r \in Req : SummarizeSelect(r)
    \/ \E r \in Req : DeleteSelect(r)
    \/ \E r \in Req, dbok \in BOOLEAN : DeleteCommit(r, dbok)
    \/ \E r \in Req : Reply(r)

FairSpec == Spec /\ WF_vars(ServerStep)

----------------------------------------------------------------------------
(***************************************************************************)
(* Properties.                                                             *)
(***************************************************************************)
Stored(c) == SelectFirst(chats, c)

AddInFlight(c) ==
    \E r \in Req : /\ req[r].handler = "add_message"
                   /\ req[r].conversation_id = c
                   /\ req[r].pc \in {"select", "commit"}

\* C1: no lost updates.  When the add_message requests on a conversation
\* have all returned, the stored list holds its first message and every
\* message add_message answered "Message added successfully" for: its
\* length is 1 plus the number of successful appends.  (Every row is
\* written by store_chat with exactly one message.)
C1_NoLostUpdates ==
    \A c \in ConvIds :
        (Stored(c) # NoChat /\ ~AddInFlight(c)) =>
            /\ Len(Stored(c).messages) = 1 + Len(acked[c])
            /\ Range(acked[c]) \subseteq Range(Stored(c).messages)

\* C2: a successful append is persisted.  In the step in which add_message
\* commits and answers success for message m on a conversation whose
\* stored messages were L, a get_chat of a new request answers L followed
\* by m.
C2_AppendPersisted ==
    [][\A r \in Req :
        (/\ req[r].handler = "add_message" /\ req[r].pc = "commit"
         /\ req'[r].pc = "done" /\ req'[r].status = 200)
        => /\ GetChatResult(chats', req[r].conversation_id).status = 200
           /\ GetChatResult(chats', req[r].conversation_id).body.messages
                = Append(Stored(req[r].conversation_id).messages, req[r].message)]_vars

\* C3: append authorization.  When add_message finds the conversation and
\* the request's user_id is not the owner's, the request ends in that step
\* with 400 "User mismatch" and the table is as before; no request whose
\* user_id differs from the owner's ever reaches the commit.
C3_AppendAuthorization ==
    [][\A r \in Req :
        (/\ req[r].handler = "add_message" /\ req[r].pc = "select"
         /\ req'[r] # req[r]
         /\ Stored(req[r].conversation_id) # NoChat
         /\ Stored(req[r].conversation_id).user_id # req[r].user_id)
        => /\ req'[r].pc = "done"
           /\ req'[r].status = 400
           /\ req'[r].body = Detail("User mismatch")
           /\ chats' = chats]_vars

\* A request by another user than the owner was answered 400.
C3_Witness ==
    \E r \in Req :
        /\ req[r].handler = "add_message" /\ req[r].pc = "done"
        /\ req[r].status = 400
        /\ Stored(req[r].conversation_id) # NoChat
        /\ Stored(req[r].conversation_id).user_id # req[r].user_id


\* C4: round trip.  While the conversation a successful store_chat(u, m)
\* returned has been neither appended to nor deleted, get_chat of the
\* returned conversation_id answers the body store_chat returned: that
\* id, user_id u and messages exactly <<m>>.
C4_RoundTrip ==
    \A r \in Req :
        (/\ req[r].handler = "store_chat" /\ req[r].pc = "done"
         /\ req[r].status = 200
         /\ req[r].body.conversation_id \notin deleted
         /\ acked[req[r].body.conversation_id] = << >>)
        => /\ GetChatResult(chats, req[r].body.conversation_id)
                = [status |-> 200, body |-> req[r].body]
           /\ req[r].body.user_id = req[r].json.user_id
           /\ req[r].body.messages = <<req[r].json.message>>

\* A store_chat has succeeded and its conversation is untouched.
C4_Witness ==
    \E r \in Req :
        /\ req[r].handler = "store_chat" /\ req[r].pc = "done"
        /\ req[r].status = 200
        /\ req[r].body.conversation_id \notin deleted
        /\ acked[req[r].body.conversation_id] = << >>

IsSummarizePost(q) ==
    /\ q.via = "http"
    /\ q.method = "POST"
    /\ q.path = <<"chats", "summarize">>
    /\ q.json.user_id = Missing /\ q.json.message = Missing
    /\ q.json.conversation_id \in ConvIds

\* C5: POST /chats/summarize with body {conversation_id: c} is served by
\* summarize_chat: the request is answered 200 with c and a summary when c
\* is stored, and 404 when it is not.
C5_SummarizeRoute ==
    \A r \in Req :
        (IsSummarizePost(req[r]) /\ req[r].pc = "done")
        => /\ req[r].handler = "summarize_chat"
           /\ \/ req[r].status = 404
              \/ /\ req[r].status = 200
                 /\ req[r].body.conversation_id = req[r].json.conversation_id
                 /\ req[r].body.summary \in STRING

\* C6: deletion.  A conversation_id delete_chat answered success for is
\* answered 404 by get_chat ever after.
C6_DeletedStaysGone ==
    \A c \in deleted : GetChatResult(chats, c).status = 404

\* A get_chat of a deleted conversation has been answered.
C6_Witness ==
    \E r \in Req :
        /\ req[r].handler = "get_chat" /\ req[r].pc = "done"
        /\ req[r].conversation_id \in deleted
        /\ req[r].status = 404

\* The window of the request: the 0-based positions of the retrieved list
\* the page is to hold.
Window(q) ==
    {i \in 0..(Len(q.retrieved) - 1) :
        (q.page - 1) * q.limit <= i /\ i < (q.page - 1) * q.limit + q.limit}

OneTo25 == [i \in 1..25 |-> i]

\* C7: pagination window.  The items get_user_chats returns are the
\* elements of the retrieved list at the positions of the window, in
\* order: at most limit of them, all owned by the user, none past the end;
\* of 25 elements with limit 10, pages 1, 3, 4 hold 10, 5 and 0.
C7_PaginationWindow ==
    /\ \A r \in Req :
        (req[r].handler = "get_user_chats" /\ req[r].pc = "done" /\ req[r].status = 200)
        => LET q == req[r]
               items == q.body.items
               first == (q.page - 1) * q.limit
           IN /\ Len(items) = Cardinality(Window(q))
              /\ Len(items) <= q.limit
              /\ \A i \in 1..Len(items) :
                    /\ items[i] = ChatConversation(q.retrieved[first + i])
                    /\ items[i].user_id = q.user_id
    /\ Len(PageOf(OneTo25, 1, 10)) = 10
    /\ Len(PageOf(OneTo25, 3, 10)) = 5
    /\ Len(PageOf(OneTo25, 4, 10)) = 0
    /\ PageOf(OneTo25, 3, 10) = <<21, 22, 23, 24, 25>>

\* A second page that is the last, partial one has been returned.
C7_Witness ==
    \E r \in Req :
        /\ req[r].handler = "get_user_chats" /\ req[r].pc = "done"
        /\ req[r].status = 200
        /\ req[r].page = 2
        /\ Len(req[r].retrieved) = 2
        /\ Len(req[r].body.items) = 1

\* C8: no overlap and no gap within a snapshot.  Of the pages served for
\* one user with one limit while the table was not written, no two
\* different pages hold the same conversation, and when the pages together
\* hold as many items as the user has conversations they hold each of them.
C8_NoOverlapNoGap ==
    \A a, b \in served :
        (a.user_id = b.user_id /\ a.limit = b.limit /\ a.page # b.page)
        => /\ Range(a.ids) \cap Range(b.ids) = {}
           /\ (Len(a.ids) + Len(b.ids) = Cardinality(RowsOfUser(chats, a.user_id))
                 => Range(a.ids) \cup Range(b.ids)
                      = {c.conversation_id : c \in RowsOfUser(chats, a.user_id)})

\* C9: summarization fallback.  generate_summary raises for no outcome of
\* the text generator; a summarize_chat that found its conversation is
\* answered 200 with a string, which is the error fallback when the call
\* raised, the "No summary available." fallback when there was no text,
\* and the text without surrounding spaces otherwise.
C9_SummaryFallback ==
    /\ \A o \in Outcomes : ~GenerateSummary(o).raised
    /\ \A r \in Req :
        (/\ req[r].handler = "summarize_chat" /\ req[r].pc = "done"
         /\ req[r].chat # NoChat)
        => /\ req[r].status = 200
           /\ req[r].body.conversation_id = req[r].conversation_id
           /\ req[r].body.summary \in STRING
           /\ req[r].outcome.kind = "raise"
                => req[r].body.summary = ErrorPrefix \o req[r].outcome.error
           /\ (req[r].outcome.kind \in {"none", "text"} /\ req[r].outcome.text = << >>)
                => req[r].body.summary = NoSummary
           /\ req[r].outcome = [kind |-> "text", text |-> <<" ", "o", "k", " ">>, error |-> ""]
                => req[r].body.summary = "ok"

\* A summarize_chat whose call to the text generator raised has answered.
C9_Witness ==
    \E r \in Req :
        /\ req[r].handler = "summarize_chat" /\ req[r].pc = "done"
        /\ req[r].chat # NoChat
        /\ req[r].outcome.kind = "raise"


\* C10: every summarize call eventually returns.  A summarize_chat that
\* has called the text generator is eventually answered, whether or not
\* the text generator ever answers.
C10_SummarizeReturns ==
    \A r \in Req : (req[r].pc = "generate") ~> (req[r].pc = "done")


IsPrefix(s, t) == Len(s) <= Len(t) /\ \A i \in 1..Len(s) : s[i] = t[i]

\* C11: messages are append-only and order-preserving.  In every step, the
\* stored messages of a conversation that exists before and after the step
\* are a prefix of its stored messages after it.  (A deleted conversation
\* does not come back, so this holds between any two states in which the
\* conversation exists.)
C11_AppendOnly ==
    [][\A c \in ConvIds :
        (Stored(c) # NoChat /\ SelectFirst(chats', c) # NoChat)
        => IsPrefix(Stored(c).messages, SelectFirst(chats', c).messages)]_vars

\* Two add_message requests on one stored conversation have both answered.
C11_Witness ==
    \E c \in ConvIds : Stored(c) # NoChat /\ Len(acked[c]) = 2

\* C12: a storage failure leaves no partial mutation.  A step in which the
\* commit of store_chat, add_message or delete_chat fails answers 500
\* "Database error" and leaves the table as it was; and a handler answers
\* 500 only in such a step.
C12_FailureNoMutation ==
    [][\A r \in Req :
        (/\ req[r].handler \in {"store_chat", "add_message", "delete_chat"}
         /\ req[r].pc = "commit" /\ req'[r].pc = "done" /\ req'[r].status # 200)
        => /\ req'[r].status = 500
           /\ req'[r].body = Detail("Database error")
           /\ chats' = chats
           /\ \A c \in ConvIds :
                GetChatResult(chats', c) = GetChatResult(chats, c)]_vars

\* A delete_chat whose commit failed has answered 500 and the row is there.
C12_Witness ==
    \E r \in Req :
        /\ req[r].handler = "delete_chat" /\ req[r].pc = "done"
        /\ req[r].status = 500
        /\ Stored(req[r].conversation_id) = req[r].chat


\* C14: every stored conversation has at least one message.
C14_NonEmpty ==
    \A c \in chats : Len(c.messages) >= 1

\* A store_chat has committed and its row is stored.
C14_Witness ==
    \E r \in Req :
        /\ req[r].handler = "store_chat" /\ req[r].pc = "done"
        /\ req[r].status = 200
        /\ Stored(req[r].conversation_id) = req[r].chat
        /\ Len(Stored(req[r].conversation_id).messages) = 1


StoredIds(table) == {c.conversation_id : c \in table}

\* C18: NotFound outcomes do not mutate and do not create.  When add_message,
\* delete_chat, get_chat or summarize_chat runs its SELECT for an id that is
\* not stored, the handler answers 404 "Conversation not found" whatever the
\* user_id of the request (for add_message the absence check comes first, so
\* never 400) and the table is unchanged; and no step of an add_message
\* adds an id to the table.
C18_NotFoundNoMutation ==
    [][\A r \in Req :
        /\ (/\ req[r].handler \in {"add_message", "delete_chat", "get_chat",
                                   "summarize_chat"}
            /\ req[r].pc = "select"
            /\ req'[r] # req[r]
            /\ Stored(req[r].conversation_id) = NoChat)
           => /\ req'[r].pc = "done"
              /\ req'[r].status = 404
              /\ req'[r].body = Detail("Conversation not found")
              /\ chats' = chats
        /\ (req[r].handler = "add_message" /\ req'[r] # req[r])
           => StoredIds(chats') \subseteq StoredIds(chats)]_vars

\* An add_message for an id that is not stored has answered 404 while
\* another conversation, owned by a different user, is stored.
C18_Witness ==
    \E r \in Req :
        /\ req[r].handler = "add_message" /\ req[r].pc = "done"
        /\ req[r].status = 404
        /\ Stored(req[r].conversation_id) = NoChat
        /\ \E c \in chats : c.user_id # req[r].user_id


\* C19: lifecycle under races.  An add_message whose conversation was
\* deleted (delete_chat committed) between its SELECT and its commit does
\* not bring the conversation back and does not answer "Message added
\* successfully" for a message that is not stored.
C19_NoAckAfterDelete ==
    [][\A r \in Req :
        (/\ req[r].handler = "add_message" /\ req[r].pc = "commit"
         /\ req'[r].pc = "done"
         /\ req[r].conversation_id \in deleted)
        => /\ SelectFirst(chats', req[r].conversation_id) = NoChat
           /\ req'[r].body # Detail("Message added successfully")]_vars


\* The table after add_message (q.conversation_id, q.user_id, q.message)
\* has run from its SELECT to its commit with no other request in between.
AddMessageAlone(table, q, dbok) ==
    LET chat == SelectFirst(table, q.conversation_id)
        s == ListAppend([chat |-> chat, pending |-> "clean"], q.message)
    IN IF chat = NoChat \/ chat.user_id # q.user_id
       THEN table
       ELSE Commit(table, s.chat, s.pending, dbok).table

\* The same for delete_chat(q.conversation_id).
DeleteChatAlone(table, q, dbok) ==
    LET chat == SelectFirst(table, q.conversation_id)
    IN IF chat = NoChat
       THEN table
       ELSE Commit(table, chat, "deleted", dbok).table

\* A request between its SELECT and its commit that writes conversation c.
WriteInFlight(q, c) ==
    /\ q.handler \in {"add_message", "delete_chat"}
    /\ q.pc = "commit"
    /\ q.conversation_id = c

\* C16: independence of conversations.  (1) No step of an add_message or a
\* delete_chat on conversation c changes a stored conversation with another
\* id.  (2) When such a request commits while every other write in flight
\* is on a different id, the table after the commit is the table that
\* running the request alone, from its SELECT, on the table before the
\* commit gives: whatever the interleaving, the final table is that of the
\* writes run one after the other in the order of their commits.
C16_Independence ==
    [][\A r \in Req :
        LET q == req[r]
        IN (q.handler \in {"add_message", "delete_chat"} /\ req'[r] # q)
           => /\ \A c \in ConvIds \ {q.conversation_id} :
                    SelectFirst(chats', c) = Stored(c)
              /\ (/\ q.pc = "commit"
                  /\ \A o \in Req \ {r} :
                        ~WriteInFlight(req[o], q.conversation_id))
                 => \E dbok \in BOOLEAN :
                       /\ dbok = (req'[r].status = 200)
                       /\ chats' = IF q.handler = "add_message"
                                   THEN AddMessageAlone(chats, q, dbok)
                                   ELSE DeleteChatAlone(chats, q, dbok)]_vars

\* An add_message on one conversation and a delete_chat on another have
\* both committed; the first one's row is stored, the other's is gone.
C16_Witness ==
    \E r, o \in Req :
        /\ req[r].handler = "add_message" /\ req[o].handler = "delete_chat"
        /\ req[r].pc = "done" /\ req[o].pc = "done"
        /\ req[r].status = 200 /\ req[o].status = 200
        /\ req[r].conversation_id # req[o].conversation_id
        /\ Stored(req[r].conversation_id) # NoChat
        /\ req[o].conversation_id \in deleted


Acts(r) == req'[r] # req[r]

\* C15: owner immutability.  A row that appears in the table was inserted by
\* a store_chat and has the user_id of that request; in every step, whatever
\* the handler that takes it, a conversation stored before and after the
\* step has the same user_id, and no row appears in a step of add_message,
\* get_chat, get_user_chats or summarize_chat.
C15_OwnerImmutable ==
    [][\A c \in ConvIds :
        /\ (Stored(c) # NoChat /\ SelectFirst(chats', c) # NoChat)
           => SelectFirst(chats', c).user_id = Stored(c).user_id
        /\ (Stored(c) = NoChat /\ SelectFirst(chats', c) # NoChat)
           => \E r \in Req :
                /\ Acts(r)
                /\ req[r].handler = "store_chat"
                /\ req[r].conversation_id = c
                /\ req[r].json.user_id = SelectFirst(chats', c).user_id]_vars

\* A store_chat has created a conversation and an add_message on it has
\* answered success; the row has the user_id given to the store_chat.
C15_Witness ==
    \E r, o \in Req :
        /\ req[o].handler = "store_chat" /\ req[o].pc = "done"
        /\ req[o].status = 200
        /\ req[r].handler = "add_message" /\ req[r].pc = "done"
        /\ req[r].status = 200
        /\ req[r].conversation_id = req[o].conversation_id
        /\ Stored(req[o].conversation_id).user_id = req[o].json.user_id

ReadHandlers == {"get_chat", "get_user_chats", "summarize_chat"}

\* C17: reads are pure and repeatable.  No step of get_chat, get_user_chats
\* or summarize_chat, from the arrival of the request to its response,
\* changes the table; and what a get_chat answers for an id is what every
\* get_chat answered for that id since the table was last written.
C17_ReadsPure ==
    [][\A r \in Req :
        /\ (Acts(r) /\ (req[r].handler \in ReadHandlers
                        \/ req'[r].handler \in ReadHandlers))
           => chats' = chats
        /\ (Acts(r) /\ req[r].handler = "get_chat" /\ req[r].pc = "select")
           => \A a \in seen :
                a.conversation_id = req[r].conversation_id
                => /\ a.status = req'[r].status
                   /\ a.body = req'[r].body]_vars

\* Two get_chat requests for one stored conversation have answered, with no
\* write in between.
C17_Witness ==
    \E r, o \in Req :
        /\ r # o
        /\ req[r].handler = "get_chat" /\ req[o].handler = "get_chat"
        /\ req[r].pc = "done" /\ req[o].pc = "done"
        /\ req[r].conversation_id = req[o].conversation_id
        /\ req[r].status = 200 /\ req[o].body = req[r].body
        /\ \E a \in seen : a.conversation_id = req[r].conversation_id

====
